---- MODULE Spec2Model ----
(***************************************************************************)
(* Lost in space: the synchronisation core.                                *)
(*   server  src/server/src/game.py     class Game  (the match)            *)
(*   client  src/client/scripts/game.py class Game  (one session)          *)
(* ServerSpec is the match alone, driven by join / report / update_winner. *)
(* Spec is one client session, driven by its update() tick, the responses  *)
(* of its transport and the passing of time.                               *)
(***************************************************************************)
EXTENDS Integers, Sequences, FiniteSets, TLC

VARIABLES
    \* ---- server Game (the match)
    nb_players,     \* self.nb_players: the capacity
    players,        \* self.players: sequence of Player records, in join order
    winner,         \* self.winner
    call,           \* the last call made on the match and what it returned
    \* ---- client Game (the session)
    username,       \* self.__username
    offline,        \* self.__offline
    other_ships,    \* self.__other_ships: username -> Ship
    player_pos,     \* position of self.__player_ship
    server_timer,   \* self.__server_timer.get(), in milliseconds, saturating
    win_winner,     \* the winner held by self.__win_handler
    session,        \* "running", "exited" (exit()) or "crashed" (uncaught raise)
    response,       \* what self.__client.report(...) gave in the last tick
    nb_reports,     \* calls of self.__client.report so far, modulo ReportsMod
    since_report    \* milliseconds since the last call of report, saturating

server_vars == <<nb_players, players, winner, call>>
client_vars == <<username, offline, other_ships, player_pos, server_timer,
                 win_winner, session, response, nb_reports, since_report>>
vars == <<nb_players, players, winner, call,
          username, offline, other_ships, player_pos, server_timer,
          win_winner, session, response, nb_reports, since_report>>

(***************************************************************************)
(* Values                                                                  *)
(***************************************************************************)
None == "None"                      \* Python's None
Users == {"P1", "P2", "P3"}

\* The capacities a match is created with: 1..MaxPlayers.
MaxPlayers == 3

\* mission["end_pos"] on the server, end_pos on the client.
EndPos == <<100, 100>>
\* start_pos of the client: where every Ship is created.
StartPos == <<0, 0>>
\* Exactly 10 away from EndPos: 6*6 + 8*8 = 100.
EdgePos == <<94, 92>>
\* Just outside: 8*8 + 7*7 = 113.
OutPos == <<92, 93>>
Positions == {StartPos, OutPos, EdgePos, EndPos}

\* The radius of the goal, in distance units.
WinRadius == 10

\* Square of the Euclidean distance.
Dist2(a, b) == (a[1] - b[1]) * (a[1] - b[1]) + (a[2] - b[2]) * (a[2] - b[2])

\* Vec2.dist(a, b) <= r, on integer coordinates.
DistLeq(a, b, r) == Dist2(a, b) <= r * r

\* A status is a tuple (position, field, field...); the server stores whatever
\* tuple is reported. Statuses of 0, 2, 3 and 4 fields.
Status(pos, n) == CASE n = 0 -> <<>>
                    [] n = 2 -> <<pos, 0>>
                    [] n = 3 -> <<pos, 0, 0>>
                    [] n = 4 -> <<pos, 0, 0, 0>>
DefaultStatus == <<>>
ServerStatuses == {Status(p, 3) : p \in Positions}
                    \cup {Status(EndPos, n) : n \in {0, 2, 4}}

(***************************************************************************)
(* Server: the match                                                       *)
(***************************************************************************)
Player(u, st) == [username |-> u, status |-> st]

\* Game.get_players
get_players == {players[i].username : i \in 1..Len(players)}

\* is_full comparing against one place too many.
is_full_one_more == Len(players) = nb_players + 1

\* Game.is_full
is_full == Len(players) = nb_players

\* Game.remaining_places
remaining_places == nb_players - Len(players)

\* Game.get_statuses: username -> status
get_statuses ==
    [u \in get_players |->
        players[CHOOSE i \in 1..Len(players) :
                    /\ players[i].username = u
                    /\ \A j \in (i+1)..Len(players) : players[j].username # u].status]

\* The loop of Game.update_winner from player i on: the first player with a
\* status of 3 fields whose position is within the radius, None when the loop
\* ends without one.
RECURSIVE scan_players(_, _)
scan_players(ps, i) ==
    IF i > Len(ps) THEN None
    ELSE IF Len(ps[i].status) = 3 /\ DistLeq(ps[i].status[1], EndPos, WinRadius)
         THEN ps[i].username
         ELSE scan_players(ps, i + 1)

\* update_winner choosing the nearest qualifying player instead of the first.
srv_update_winner_nearest(w, ps) ==
    LET Q == {i \in 1..Len(ps) : /\ Len(ps[i].status) = 3
                                  /\ DistLeq(ps[i].status[1], EndPos, WinRadius)}
    IN  IF w # None THEN w
        ELSE IF Q = {} THEN None
        ELSE ps[CHOOSE i \in Q : \A j \in Q :
                  Dist2(ps[i].status[1], EndPos) <= Dist2(ps[j].status[1], EndPos)].username

\* update_winner without the test of self.winner.
srv_update_winner_unguarded(w, ps) == scan_players(ps, 1)

\* The loop of update_winner testing `len(player.status) >= 3`.
RECURSIVE scan_players_at_least(_, _)
scan_players_at_least(ps, i) ==
    IF i > Len(ps) THEN None
    ELSE IF Len(ps[i].status) >= 3 /\ DistLeq(ps[i].status[1], EndPos, WinRadius)
         THEN ps[i].username
         ELSE scan_players_at_least(ps, i + 1)

\* update_winner taking every status of 3 fields or more.
srv_update_winner_at_least(w, ps) ==
    IF w = None THEN scan_players_at_least(ps, 1) ELSE w

\* Game.update_winner (server): the winner after the call.
srv_update_winner(w, ps) == IF w = None THEN scan_players(ps, 1) ELSE w

Called(op, result) == [op |-> op, result |-> result, winner0 |-> winner]

\* join(username): not among the sources; from the spec, 4.2.
Join(u) ==
    /\ IF is_full
       THEN /\ call' = Called("join", "Full")
            /\ UNCHANGED players
       ELSE IF u \in get_players
       THEN /\ call' = Called("join", "DuplicateName")
            /\ UNCHANGED players
       ELSE /\ call' = Called("join", "success")
            /\ players' = Append(players, Player(u, DefaultStatus))
    /\ UNCHANGED <<nb_players, winner>>
    /\ UNCHANGED client_vars

\* report(username, status): not among the sources; from the spec, 4.2.
Report(u, st) ==
    /\ players' = [i \in 1..Len(players) |->
                      IF players[i].username = u THEN Player(u, st) ELSE players[i]]
    /\ call' = Called("report", IF u \in get_players THEN "success" ELSE "ignored")
    /\ UNCHANGED <<nb_players, winner>>
    /\ UNCHANGED client_vars

\* Game.update_winner (server), as a call on the match
UpdateWinner ==
    /\ winner' = srv_update_winner(winner, players)
    /\ call' = Called("update_winner", "-")
    /\ UNCHANGED <<nb_players, players>>
    /\ UNCHANGED client_vars

NoCall == [op |-> "-", result |-> "-", winner0 |-> None]

\* Game.__init__ (server)
ServerNew(n) ==
    /\ nb_players = n
    /\ players = <<>>
    /\ winner = None
    /\ call = NoCall

(***************************************************************************)
(* Client: the session                                                     *)
(***************************************************************************)
\* update_server sends when more than 0.025 s have passed: 25 ms.
ReportInterval == 25
\* The timer saturates here: every reading above ReportInterval acts alike.
TimerCap == 30
\* Time passes in steps of these many milliseconds.
Deltas == {15, 25}
\* The calls of report are counted modulo this.
ReportsMod == 2

Min(a, b) == IF a < b THEN a ELSE b

\* A dict with no key.
EmptyMap == [u \in {} |-> <<>>]

\* The statuses a response may give for a username.
RemoteStatuses == {Status(EndPos, n) : n \in {0, 2, 3}}
\* The "statuses" dicts of a response: any usernames, known to the session or
\* not. The session never reads the entry of its own username (other_ships
\* has no such key): one value stands for it.
StatusMaps ==
    {st \in UNION {[S -> RemoteStatuses] : S \in SUBSET Users} :
        "P1" \in DOMAIN st => st["P1"] = Status(EndPos, 3)}

\* The "data" of a response; present is FALSE when the response carries none
\* (response.get("data") is None or empty).
Data(st, w) == [present |-> TRUE, statuses |-> st, winner |-> w]
NoData == [present |-> FALSE, statuses |-> EmptyMap, winner |-> None]
\* The winner of a response: none, the local participant or another one.
DataValues == {Data(st, w) : st \in StatusMaps, w \in {None, "P1", "P2"}}

\* What the call self.__client.report(...) does: it raises ("fault"), or returns
\* a response ("reply") with an error (None when response.get("error") is None
\* or empty) and data. "none": no call was made.
Reply(err, d) == [kind |-> "reply", error |-> err, data |-> d]
Fault == [kind |-> "fault", error |-> None, data |-> NoData]
NoCallMade == [kind |-> "none", error |-> None, data |-> NoData]
\* With an error the data is never read: two data values stand for all.
Responses ==
    {Fault}
      \cup {Reply(None, d) : d \in DataValues \cup {NoData}}
      \cup {Reply("Error", d) :
              d \in {NoData, Data([u \in Users |-> Status(EndPos, 3)], "P2")}}

\* Ship: the status last set and whether disappear() was called.
Ship(st) == [status |-> st, disappeared |-> FALSE]

\* init_ships without the test `player != self.__username`.
init_ships_everyone(pseudo, ps) ==
    [p \in {ps[i] : i \in 1..Len(ps)} |-> Ship(Status(StartPos, 3))]

\* Game.init_ships: a Ship at start_pos for every player but the local one.
init_ships(pseudo, ps) ==
    [p \in {ps[i] : i \in 1..Len(ps)} \ {pseudo} |-> Ship(Status(StartPos, 3))]

\* WinHandler.has_winner
has_winner == win_winner # None

\* Map.is_winner: the position is within the radius of the goal.
is_winner(pos) == DistLeq(pos, EndPos, WinRadius)

\* A report due as soon as any time has passed.
report_due_at_once(time) == time > 0

\* A report due from the interval on: `time >= 0.025`.
report_due_from_interval(time) == time >= ReportInterval

\* Game.update_server line 193: whether a report is due.
report_due(time) == time > ReportInterval

\* update_server testing "data" before "error".
update_server_data_first(time, r) ==
    IF report_due(time)
    THEN IF r.kind = "fault"
         THEN [sent |-> TRUE, timer |-> 0, end |-> "exit", report |-> NoData]
         ELSE IF r.data.present
         THEN [sent |-> TRUE, timer |-> 0, end |-> "return", report |-> r.data]
         ELSE [sent |-> TRUE, timer |-> 0, end |-> "raise", report |-> NoData]
    ELSE [sent |-> FALSE, timer |-> time, end |-> "return", report |-> NoData]

\* Game.update_server, called at timer reading `time` when the transport would
\* give r: whether report was called, the timer after, how the call ends
\* ("return", "exit": exit() then return None, "raise": BaseException leaves
\* update) and the report returned.
update_server(time, r) ==
    IF report_due(time)
    THEN IF r.kind = "fault"
         THEN [sent |-> TRUE, timer |-> 0, end |-> "exit", report |-> NoData]
         ELSE IF r.error # None
         THEN [sent |-> TRUE, timer |-> 0, end |-> "raise", report |-> NoData]
         ELSE IF r.data.present
         THEN [sent |-> TRUE, timer |-> 0, end |-> "return", report |-> r.data]
         ELSE [sent |-> TRUE, timer |-> 0, end |-> "raise", report |-> NoData]
    ELSE [sent |-> FALSE, timer |-> time, end |-> "return", report |-> NoData]

\* update() in offline mode never calls update_server.
NotCalled(time) == [sent |-> FALSE, timer |-> time, end |-> "return", report |-> NoData]

\* update_positions testing the key alone: `player in report`.
update_positions_by_key(ships, statuses) ==
    [p \in DOMAIN ships |->
        IF p \in DOMAIN statuses
        THEN [ships[p] EXCEPT !.status = statuses[p]]
        ELSE [ships[p] EXCEPT !.disappeared = TRUE]]

\* update_positions leaving a ship that has disappeared alone.
update_positions_skip_disappeared(ships, statuses) ==
    [p \in DOMAIN ships |->
        IF ships[p].disappeared THEN ships[p]
        ELSE IF p \in DOMAIN statuses /\ statuses[p] # <<>>
        THEN [ships[p] EXCEPT !.status = statuses[p]]
        ELSE [ships[p] EXCEPT !.disappeared = TRUE]]

\* update_positions never calling disappear().
update_positions_keep_absent(ships, statuses) ==
    [p \in DOMAIN ships |->
        IF p \in DOMAIN statuses /\ statuses[p] # <<>>
        THEN [ships[p] EXCEPT !.status = statuses[p]]
        ELSE ships[p]]

\* Game.update_positions: report.get(player) is falsy for a missing key and
\* for an empty status.
update_positions(ships, statuses) ==
    [p \in DOMAIN ships |->
        IF p \in DOMAIN statuses /\ statuses[p] # <<>>
        THEN [ships[p] EXCEPT !.status = statuses[p]]
        ELSE [ships[p] EXCEPT !.disappeared = TRUE]]

\* update_winner testing the local position before the report's winner.
cli_update_winner_local_first(w, report, pos) ==
    IF is_winner(pos) THEN username
    ELSE IF report.present /\ report.winner # None THEN report.winner
    ELSE w

\* update_winner falling back on the local position only without a report.
cli_update_winner_no_fallback_on_report(w, report, pos) ==
    IF report.present
    THEN (IF report.winner # None THEN report.winner ELSE w)
    ELSE IF is_winner(pos) THEN username
    ELSE w

\* Game.update_winner (client): the winner held by the WinHandler after the call.
cli_update_winner(w, report, pos) ==
    IF report.present /\ report.winner # None THEN report.winner
    ELSE IF is_winner(pos) THEN username
    ELSE w

\* update() without the test of has_winner().
update_branch_always_active == "active"

\* Game.update, lines 166-186: which branch a tick takes.
update_branch == IF ~has_winner THEN "active" ELSE "idle"

\* exit() leaving update scheduled.
exit_still_scheduled == "running"

\* Game.exit via Game.stop: update is unscheduled.
exit == "exited"

\* Where a tick may move the local ship: outside the goal or within it.
LocalPositions == {OutPos, EdgePos}

\* The active branch calling update_server in offline mode too.
active_tick_always_networked(pos, r) ==
    LET us == update_server(server_timer, r)
        report == us.report
    IN  IF us.end = "raise"
        THEN [sent |-> us.sent, timer |-> us.timer, session |-> "crashed",
              ships |-> other_ships, win |-> win_winner]
        ELSE [sent |-> us.sent, timer |-> us.timer,
              session |-> IF us.end = "exit" THEN exit ELSE session,
              ships |-> IF report.present
                        THEN update_positions(other_ships, report.statuses)
                        ELSE other_ships,
              win |-> cli_update_winner(win_winner, report, pos)]

\* Game.update, lines 167-182: what the active branch leaves behind when the
\* ship moves to pos and the transport would give r. A BaseException raised by
\* update_server leaves update at line 178: nothing after it runs.
active_tick(pos, r) ==
    LET us == IF ~offline THEN update_server(server_timer, r)
              ELSE NotCalled(server_timer)
        report == us.report
    IN  IF us.end = "raise"
        THEN [sent |-> us.sent, timer |-> us.timer, session |-> "crashed",
              ships |-> other_ships, win |-> win_winner]
        ELSE [sent |-> us.sent, timer |-> us.timer,
              session |-> IF us.end = "exit" THEN exit ELSE session,
              ships |-> IF report.present
                        THEN update_positions(other_ships, report.statuses)
                        ELSE other_ships,
              win |-> cli_update_winner(win_winner, report, pos)]

\* Game.update, the active branch, as a step.
ActiveTick(pos, r) ==
    LET t == active_tick(pos, r)
    IN  /\ player_pos' = pos
        /\ server_timer' = t.timer
        /\ session' = t.session
        /\ other_ships' = t.ships
        /\ win_winner' = t.win
        /\ nb_reports' = IF t.sent THEN (nb_reports + 1) % ReportsMod ELSE nb_reports
        /\ since_report' = IF t.sent THEN 0 ELSE since_report
        /\ response' = IF t.sent THEN r ELSE NoCallMade

\* Game.update, the idle branch: exit on ENTER.
IdleTick(enter) ==
    /\ session' = IF enter THEN exit ELSE session
    /\ UNCHANGED <<other_ships, player_pos, server_timer, win_winner,
                   response, nb_reports, since_report>>

\* Game.update: one tick of the scheduled loop.
Update ==
    /\ session = "running"
    /\ IF update_branch = "active"
       THEN \E pos \in LocalPositions :
              IF ~offline /\ report_due(server_timer)
              THEN \E r \in Responses : ActiveTick(pos, r)
              ELSE ActiveTick(pos, NoCallMade)
       ELSE \E enter \in BOOLEAN : IdleTick(enter)
    /\ UNCHANGED <<username, offline>>
    /\ UNCHANGED server_vars

\* Chrono: d milliseconds pass.
Elapse(d) ==
    /\ session = "running"
    /\ server_timer' = Min(server_timer + d, TimerCap)
    /\ since_report' = IF since_report = -1 THEN -1
                       ELSE Min(since_report + d, TimerCap)
    /\ UNCHANGED <<username, offline, other_ships, player_pos, win_winner,
                   session, response, nb_reports>>
    /\ UNCHANGED server_vars

\* The rosters a session is created with: the players of the match, the local
\* one among them.
RECURSIVE Perms(_)
Perms(S) == IF S = {} THEN {<<>>}
            ELSE UNION {{<<x>> \o q : q \in Perms(S \ {x})} : x \in S}
Rosters(u) == UNION {Perms(S) : S \in {T \in SUBSET Users : u \in T}}

\* Game.__init__ (client)
ClientNew(u, ps, off) ==
    /\ username = u
    /\ offline = off
    /\ other_ships = init_ships(u, ps)
    /\ player_pos = StartPos
    /\ server_timer = 0
    /\ win_winner = None
    /\ session = "running"
    /\ response = NoCallMade
    /\ nb_reports = 0
    /\ since_report = -1

(***************************************************************************)
(* Specifications                                                          *)
(***************************************************************************)
\* ServerSpec: the match alone. The session stays as constructed.
ServerInit ==
    /\ \E n \in 1..MaxPlayers : ServerNew(n)
    /\ ClientNew("P1", <<"P1">>, FALSE)

ServerNext ==
    \/ \E u \in Users : Join(u)
    \/ \E u \in Users, st \in ServerStatuses : Report(u, st)
    \/ UpdateWinner

ServerSpec == ServerInit /\ [][ServerNext]_vars

\* Spec: the session of P1 (the names are interchangeable) against any
\* transport. The match stays as constructed.
Init ==
    /\ ServerNew(1)
    /\ \E off \in BOOLEAN, ps \in Rosters("P1") : ClientNew("P1", ps, off)

Next ==
    \/ Update
    \/ \E d \in Deltas : Elapse(d)

Spec == Init /\ [][Next]_vars

\* SystemSpec: the match serving the networked session of P1 and its peers.
\* The request handlers of the server are not among the sources: from the
\* spec, 4.2, 6 and 7.

\* The statuses the peers report.
PeerStatuses == {Status(StartPos, 3), Status(EndPos, 3)}

\* The handler of a report: report(username, status), evaluate_winner.
Serve(u, st) ==
    /\ players' = [i \in 1..Len(players) |->
                      IF players[i].username = u THEN Player(u, st) ELSE players[i]]
    /\ winner' = srv_update_winner(winner, players')
    /\ call' = Called("report", IF u \in get_players THEN "success" ELSE "ignored")
    /\ UNCHANGED nb_players

\* A tick of the session; a report it sends is served by the match, whose
\* response carries the statuses and the winner, or the transport fails.
SysUpdate ==
    /\ session = "running"
    /\ IF update_branch = "active"
       THEN \E pos \in LocalPositions :
              IF report_due(server_timer)
              THEN \/ /\ Serve(username, Status(pos, 3))
                      /\ ActiveTick(pos, Reply(None, Data(get_statuses', winner')))
                   \/ /\ ActiveTick(pos, Fault)
                      /\ UNCHANGED server_vars
              ELSE /\ ActiveTick(pos, NoCallMade)
                   /\ UNCHANGED server_vars
       ELSE /\ \E enter \in BOOLEAN : IdleTick(enter)
            /\ UNCHANGED server_vars
    /\ UNCHANGED <<username, offline>>

\* The session of a peer reports.
PeerReport(u, st) ==
    /\ u \in get_players \ {username}
    /\ Serve(u, st)
    /\ UNCHANGED client_vars

\* The session of a peer has terminated: the match drops it from the roster.
Depart(u) ==
    /\ u \in get_players \ {username}
    /\ players' = SelectSeq(players, LAMBDA p : p.username # u)
    /\ call' = Called("depart", "success")
    /\ UNCHANGED <<nb_players, winner>>
    /\ UNCHANGED client_vars

\* The match is formed: everyone has joined, nobody has reported.
SystemInit ==
    \E ps \in Rosters("P1") :
        /\ nb_players = Len(ps)
        /\ players = [i \in 1..Len(ps) |-> Player(ps[i], DefaultStatus)]
        /\ winner = None
        /\ call = NoCall
        /\ ClientNew("P1", ps, FALSE)

SystemNext ==
    \/ SysUpdate
    \/ \E d \in Deltas : Elapse(d)
    \/ \E u \in Users, st \in PeerStatuses : PeerReport(u, st)
    \/ \E u \in Users : Depart(u)

SystemSpec == SystemInit /\ [][SystemNext]_vars

(***************************************************************************)
(* Claims about the match (ServerSpec)                                     *)
(***************************************************************************)
\* Player i has a status of position plus two fields, within the radius.
Qualifies(i) ==
    /\ Len(players[i].status) = 3
    /\ Dist2(players[i].status[1], EndPos) <= WinRadius * WinRadius

\* C1: update_winner called while no winner is set makes the winner the
\* first player, in join order, whose complete status is within 10 of the goal,
\* whoever else is within it and however close; with no such player the winner
\* stays unset.
C1_FirstInJoinOrderWins ==
    (call.op = "update_winner" /\ call.winner0 = None) =>
        /\ (winner = None) <=> (\A i \in 1..Len(players) : ~Qualifies(i))
        /\ \A i \in 1..Len(players) :
              (Qualifies(i) /\ \A j \in 1..(i-1) : ~Qualifies(j))
                  => winner = players[i].username

\* update_winner has just chosen the earlier of two qualifying players, the
\* later one strictly closer to the goal.
C1_Witness ==
    /\ call.op = "update_winner" /\ call.winner0 = None
    /\ \E i, j \in 1..Len(players) :
          /\ i < j /\ Qualifies(i) /\ Qualifies(j)
          /\ Dist2(players[j].status[1], EndPos) < Dist2(players[i].status[1], EndPos)
          /\ winner = players[i].username

\* C2: once the winner is set, no call on the match clears or changes it.
C2_WinnerIsFinal == [][winner # None => winner' = winner]_vars

\* update_winner was called with the winner already set, while a player
\* earlier in join order stands exactly on the goal: the winner is unchanged.
C2_Witness ==
    /\ call.op = "update_winner" /\ call.winner0 # None /\ winner = call.winner0
    /\ \E i, j \in 1..Len(players) :
          /\ i < j /\ players[j].username = winner
          /\ Qualifies(i) /\ players[i].status[1] = EndPos

\* C3: the roster never holds more players than the capacity, and a join on
\* a full roster is rejected as Full and leaves the roster as it is.
C3_RosterWithinCapacity ==
    /\ [](Len(players) <= nb_players)
    /\ [][(call'.op = "join" /\ Len(players) = nb_players)
            => (call'.result = "Full" /\ players' = players)]_vars

\* A join was rejected as Full on a roster holding exactly the capacity.
C3_Witness ==
    /\ call.op = "join" /\ call.result = "Full"
    /\ Len(players) = nb_players

(***************************************************************************)
(* Claims about the session (Spec)                                         *)
(***************************************************************************)
\* This step is a tick in which report(...) was called.
Sends == nb_reports' # nb_reports
\* This step is a tick in which report(...) returned a response.
Replied == Sends /\ response'.kind = "reply"
\* This step is a tick that received well-formed data.
GotData == Replied /\ response'.error = None /\ response'.data.present

\* C4, as claimed: on received statuses, every cached username that is a key
\* of statuses is overwritten from its tuple and not marked disappeared,
\* whatever the tuple; every cached username that is no key is marked
\* disappeared.
C4_AsClaimed ==
    [][GotData =>
        \A p \in DOMAIN other_ships :
            IF p \in DOMAIN response'.data.statuses
            THEN /\ other_ships'[p].status = response'.data.statuses[p]
                 /\ other_ships'[p].disappeared = other_ships[p].disappeared
            ELSE /\ other_ships'[p].disappeared
                 /\ other_ships'[p].status = other_ships[p].status]_vars

\* C4, amended: a cached username that is a key of statuses with a non-empty
\* tuple is overwritten from the tuple and not marked disappeared; a cached
\* username that is no key, or whose tuple is empty, is marked disappeared
\* and keeps its state.
C4_Reconciliation ==
    [][GotData =>
        \A p \in DOMAIN other_ships :
            IF p \in DOMAIN response'.data.statuses
                  /\ Len(response'.data.statuses[p]) > 0
            THEN /\ other_ships'[p].status = response'.data.statuses[p]
                 /\ other_ships'[p].disappeared = other_ships[p].disappeared
            ELSE /\ other_ships'[p].disappeared
                 /\ other_ships'[p].status = other_ships[p].status]_vars

\* The cache holds P2 and P3; the statuses received gave P2 an incomplete
\* status and did not name P3: P2 is updated, P3 disappeared.
C4_Witness ==
    /\ response.kind = "reply" /\ response.error = None /\ response.data.present
    /\ DOMAIN other_ships = {"P2", "P3"}
    /\ "P2" \in DOMAIN response.data.statuses
    /\ "P3" \notin DOMAIN response.data.statuses
    /\ Len(response.data.statuses["P2"]) = 2
    /\ other_ships["P2"].status = response.data.statuses["P2"]
    /\ ~other_ships["P2"].disappeared
    /\ other_ships["P3"].disappeared
    /\ other_ships["P3"].status = Status(StartPos, 3)

\* C5: a tick calls report only if at least ReportInterval has passed since
\* the previous call of report: two ticks closer together than that make one
\* report, never two.
C5_Throttle ==
    [][Sends => (since_report = -1 \/ since_report >= ReportInterval)]_vars

\* A tick ran less than ReportInterval after a report and sent nothing.
C5_Witness ==
    /\ session = "running"
    /\ since_report > 0 /\ since_report < ReportInterval
    /\ response.kind = "none"
    /\ nb_reports = 1

\* C6: the tick in which report faults ends with the session terminated, and
\* no report is attempted from then on.
C6_FailFast ==
    /\ [](response.kind = "fault" => session # "running")
    /\ [][response.kind = "fault"
            => (nb_reports' = nb_reports /\ response' = response)]_vars

\* The report call has faulted and the session has exited.
C6_Witness == response.kind = "fault" /\ session = "exited"

\* What a tick leaves behind, a terminated session being one state.
Outcome(t) == [timer |-> t.timer, sent |-> t.sent, ships |-> t.ships,
               win |-> t.win, terminated |-> t.session # "running"]

\* C7, as claimed: a tick whose response carries an error terminates the
\* session, reconciles nothing and leaves the displayed winner alone, and
\* ends in the state the same tick would end in had report faulted.
C7_ErrorHandledAsFault ==
    [][(Replied /\ response'.error # None) =>
          /\ session' # "running"
          /\ other_ships' = other_ships
          /\ win_winner' = win_winner
          /\ Outcome(active_tick(player_pos', response'))
                = Outcome(active_tick(player_pos', Fault))]_vars

\* C8: a response is taken as data only if it carries data and no error:
\* with neither, or with an error beside the data, the tick is fatal,
\* reconciles nothing and sets no winner.
C8_OnlyDataWithoutError ==
    [][(Replied /\ ~(response'.error = None /\ response'.data.present)) =>
          /\ session' = "crashed"
          /\ other_ships' = other_ships
          /\ win_winner' = win_winner]_vars

\* A response with neither data nor error was received within the goal: the
\* session is terminated, no ship has changed and no winner is displayed.
C8_Witness ==
    /\ response.kind = "reply" /\ response.error = None /\ ~response.data.present
    /\ session = "crashed"
    /\ is_winner(player_pos)
    /\ win_winner = None
    /\ \A p \in DOMAIN other_ships : other_ships[p] = Ship(Status(StartPos, 3))

\* C9: the displayed winner, once set, is never cleared or changed.
C9_DisplayedWinnerIsFinal == [][win_winner # None => win_winner' = win_winner]_vars

\* The winner displayed came from the server and names another participant;
\* the session still runs, the local ship is within the goal and a report would
\* be due.
C9_Witness ==
    /\ win_winner = "P2"
    /\ session = "running"
    /\ is_winner(player_pos)
    /\ server_timer > ReportInterval

\* C10: a tick that starts with a winner displayed sends nothing, does not
\* reset the timer, reconciles nothing and leaves the local ship alone; all
\* it may do is exit.
C10_IdleTicksDoNothing ==
    [][win_winner # None =>
          /\ nb_reports' = nb_reports
          /\ response' = response
          /\ server_timer' >= server_timer
          /\ other_ships' = other_ships
          /\ player_pos' = player_pos
          /\ win_winner' = win_winner
          /\ session' \in {session, "exited"}]_vars

\* A session with a winner displayed has exited on the exit signal, not on a
\* fault, more than ReportInterval after its last report.
C10_Witness ==
    /\ win_winner # None
    /\ session = "exited"
    /\ response.kind = "reply"
    /\ since_report > ReportInterval

\* C11: a tick that receives well-formed data with a winner W ends with W
\* displayed (the session is idle from then on), also when the local ship is
\* within the goal and W is another participant.
C11_ServerWinnerTakesPrecedence ==
    [][(GotData /\ response'.data.winner # None)
          => win_winner' = response'.data.winner]_vars

\* The data received named P2 the winner while the local ship was within the
\* goal: P2 is displayed.
C11_Witness ==
    /\ response.kind = "reply" /\ response.error = None /\ response.data.present
    /\ response.data.winner = "P2"
    /\ username = "P1"
    /\ is_winner(player_pos)
    /\ win_winner = "P2"

\* C12: the cache of remote participants never has the local username as a
\* key, whatever the roster and whatever statuses are received.
C12_CacheExcludesLocal == username \notin DOMAIN other_ships

\* The statuses received named the local username and a username the session
\* does not know, and were reconciled into a cache of one remote participant.
C12_Witness ==
    /\ response.kind = "reply" /\ response.error = None /\ response.data.present
    /\ DOMAIN response.data.statuses = Users
    /\ DOMAIN other_ships = {"P2"}
    /\ other_ships["P2"].status = response.data.statuses["P2"]
    /\ session = "running"

ActiveStep ==
    /\ win_winner = None /\ session = "running"
    /\ <<player_pos, nb_reports, response, other_ships, win_winner>>'
          # <<player_pos, nb_reports, response, other_ships, win_winner>>
\* This step resets the timer.
Resets == server_timer' < server_timer

\* C15, as claimed: an active networked tick sends (and resets the timer)
\* exactly when the time elapsed is at least ReportInterval, the interval
\* itself included.
C15_SendsFromInterval ==
    [][(ActiveStep /\ ~offline) =>
          /\ Sends <=> server_timer >= ReportInterval
          /\ Resets <=> server_timer >= ReportInterval]_vars

\* C15, amended: an active networked tick sends (and resets the timer)
\* exactly when the time elapsed is more than ReportInterval; at the interval
\* itself or below it nothing is sent and the timer is not reset.
C15_SendsAboveInterval ==
    [][/\ (ActiveStep /\ ~offline) =>
              /\ Sends <=> server_timer > ReportInterval
              /\ Resets <=> server_timer > ReportInterval
       /\ Sends => server_timer' = 0
       /\ (Sends \/ Resets) => (ActiveStep /\ ~offline)]_vars

\* A tick ran with exactly ReportInterval on the timer: nothing was sent and
\* the timer still reads the interval.
C15_Witness ==
    /\ ~offline /\ session = "running"
    /\ server_timer = ReportInterval
    /\ player_pos # StartPos
    /\ response.kind = "none"
    /\ nb_reports = 0 /\ since_report = -1

\* C16, as claimed: every active tick, networked or not, that receives no
\* winner from the server ends with the local username displayed if the local
\* ship is then within the goal, and with no winner displayed otherwise.
C16_LocalFallbackEveryTick ==
    [][(ActiveStep /\ ~(GotData /\ response'.data.winner # None)) =>
          win_winner' = IF is_winner(player_pos') THEN username ELSE None]_vars

\* This step is a tick ended by a fatal condition.
Fatal == Sends /\ session' # "running"

\* C16, amended: every active tick, networked or not, that is not ended by a
\* fatal condition and receives no winner from the server ends with the local
\* username displayed if the local ship is then within the goal, and with no
\* winner displayed otherwise.
C16_LocalFallback ==
    [][(ActiveStep /\ ~Fatal /\ ~(GotData /\ response'.data.winner # None)) =>
          win_winner' = IF is_winner(player_pos') THEN username ELSE None]_vars

\* A tick received data naming no winner with the local ship within the goal:
\* the local username is displayed.
C16_Witness ==
    /\ response.kind = "reply" /\ response.error = None /\ response.data.present
    /\ response.data.winner = None
    /\ since_report = 0
    /\ is_winner(player_pos)
    /\ win_winner = username
    /\ session = "running"

\* C17, as claimed: the tick in which report faults reconciles nothing and
\* leaves the displayed winner as it was.
C17_FaultAbortsTheTick ==
    [][(Sends /\ response'.kind = "fault") =>
          /\ other_ships' = other_ships
          /\ win_winner' = win_winner]_vars

\* C19: an offline session never calls report, never resets the timer and
\* never reconciles; the only winner it ever displays is the local username.
C19_OfflineIsLocalOnly ==
    /\ [](offline => (win_winner \in {None, username} /\ response.kind = "none"))
    /\ [][offline => (/\ ~Sends /\ ~Resets
                      /\ other_ships' = other_ships)]_vars

\* An offline session, long past the report interval and with a remote ship
\* in its cache, displays the local username.
C19_Witness ==
    /\ offline
    /\ server_timer > ReportInterval
    /\ other_ships # EmptyMap
    /\ win_winner = username
    /\ is_winner(player_pos)

(***************************************************************************)
(* More claims about the match (ServerSpec)                                *)
(***************************************************************************)
\* Player i is within the radius with a status of n fields, n satisfying F.
WithinWith(i, F(_)) ==
    /\ F(Len(players[i].status))
    /\ Len(players[i].status) >= 1
    /\ Dist2(players[i].status[1], EndPos) <= WinRadius * WinRadius
AtLeast3(n) == n >= 3
Exactly3(n) == n = 3
\* The player named u.
IndexOf(u) == CHOOSE i \in 1..Len(players) : players[i].username = u

\* C18, as claimed: update_winner called with no winner set takes every
\* player whose status has at least 3 fields: it sets a winner exactly when
\* such a player is within the radius (more than 3 fields included), and the
\* winner it sets is such a player.
C18_EligibleWithAtLeast3Fields ==
    (call.op = "update_winner" /\ call.winner0 = None) =>
        /\ (winner # None) <=> (\E i \in 1..Len(players) : WithinWith(i, AtLeast3))
        /\ (winner # None) => WithinWith(IndexOf(winner), AtLeast3)

\* C18, amended: update_winner called with no winner set takes the players
\* whose status has exactly 3 fields: it sets a winner exactly when such a
\* player is within the radius, the winner it sets is such a player, and a
\* player with fewer or more than 3 fields never becomes the winner.
C18_EligibleWithExactly3Fields ==
    (call.op = "update_winner" /\ call.winner0 = None) =>
        /\ (winner # None) <=> (\E i \in 1..Len(players) : WithinWith(i, Exactly3))
        /\ (winner # None) => WithinWith(IndexOf(winner), Exactly3)

\* update_winner has passed over a player on the goal with a status of 4
\* fields and one with 2, and set no winner.
C18_Witness ==
    /\ call.op = "update_winner" /\ call.winner0 = None
    /\ winner = None
    /\ \E i, j \in 1..Len(players) :
          /\ players[i].status = Status(EndPos, 4)
          /\ players[j].status = Status(EndPos, 2)

C20_WinnerAgreement ==
    (win_winner # None /\ winner # None) => win_winner = winner

====
